---- MODULE Spec2Model ----
(***************************************************************************)
(* A model of the Proxmox API token bootstrap scripts                      *)
(*   src/scripts/proxmox_create_token.py    (variant "create")             *)
(*   src/scripts/proxmox_generate_token.py  (variant "generate")           *)
(*                                                                         *)
(* Text (command output, principals, passwords) is a sequence of           *)
(* one-character strings, so that json.loads, re.search, str.lower and     *)
(* the `in` substring test are computed as the code computes them.         *)
(* One action is one blocking step of main(): a prompt, one runner call or *)
(* ssh.close(), together with all the code that runs until the next        *)
(* blocking step.                                                          *)
(***************************************************************************)
EXTENDS Integers, Sequences, FiniteSets, TLC

(***************************************************************************)
(* Characters and text                                                     *)
(***************************************************************************)
LowerLetters ==
  {"a","b","c","d","e","f","g","h","i","j","k","l","m",
   "n","o","p","q","r","s","t","u","v","w","x","y","z"}

UpperLetters ==
  {"A","B","C","D","E","F","G","H","I","J","K","L","M",
   "N","O","P","Q","R","S","T","U","V","W","X","Y","Z"}

Digits == {"0","1","2","3","4","5","6","7","8","9"}

\* str.lower() on one ASCII character
LowerChar(c) ==
  CASE c = "A" -> "a" [] c = "B" -> "b" [] c = "C" -> "c" [] c = "D" -> "d"
    [] c = "E" -> "e" [] c = "F" -> "f" [] c = "G" -> "g" [] c = "H" -> "h"
    [] c = "I" -> "i" [] c = "J" -> "j" [] c = "K" -> "k" [] c = "L" -> "l"
    [] c = "M" -> "m" [] c = "N" -> "n" [] c = "O" -> "o" [] c = "P" -> "p"
    [] c = "Q" -> "q" [] c = "R" -> "r" [] c = "S" -> "s" [] c = "T" -> "t"
    [] c = "U" -> "u" [] c = "V" -> "v" [] c = "W" -> "w" [] c = "X" -> "x"
    [] c = "Y" -> "y" [] c = "Z" -> "z" [] OTHER -> c

\* out.lower()
Lower(s) == [i \in 1..Len(s) |-> LowerChar(s[i])]

\* s[i:].startswith(p), 1-based
StartsAt(s, i, p) ==
  /\ i >= 1
  /\ i + Len(p) - 1 <= Len(s)
  /\ \A k \in 1..Len(p) : s[i + k - 1] = p[k]

\* Python's `needle in hay` on str
Contains(hay, needle) ==
  \E i \in 1..(Len(hay) + 1) : StartsAt(hay, i, needle)

\* words used by the code and by the platform's output
W_value == <<"v","a","l","u","e">>
W_secret == <<"s","e","c","r","e","t">>
W_userid == <<"u","s","e","r","i","d">>
W_Token_value == <<"T","o","k","e","n"," ","v","a","l","u","e">>
W_already_exists == <<"a","l","r","e","a","d","y"," ","e","x","i","s","t","s">>
W_true == <<"t","r","u","e">>
W_false == <<"f","a","l","s","e">>
W_null == <<"n","u","l","l">>

(***************************************************************************)
(* json.loads, for the JSON subset the outputs are drawn from: objects,    *)
(* arrays, strings without escapes, integers, true, false, null.  A parsed *)
(* value is a tagged record [t, v]; Python's None is [t |-> "null"].       *)
(***************************************************************************)
JsonWs == {" ", "\t", "\n", "\r"}

JNull == [t |-> "null", v |-> 0]
JBool(b) == [t |-> "bool", v |-> b]
JNum(n) == [t |-> "num", v |-> n]
JStr(s) == [t |-> "str", v |-> s]
JArr(elems) == [t |-> "arr", v |-> elems]
JObj(members) == [t |-> "obj", v |-> members]

PFail == [ok |-> FALSE, val |-> JNull, next |-> 0]
POk(val, next) == [ok |-> TRUE, val |-> val, next |-> next]

RECURSIVE SkipWs(_, _)
SkipWs(s, i) ==
  IF i <= Len(s) /\ s[i] \in JsonWs THEN SkipWs(s, i + 1) ELSE i

\* index of the closing quote of the string whose body starts at i; 0 when the
\* string is unterminated or holds an escape or a control character
RECURSIVE StringEnd(_, _)
StringEnd(s, i) ==
  IF i > Len(s) THEN 0
  ELSE IF s[i] = "\"" THEN i
  ELSE IF s[i] \in {"\\", "\n", "\t", "\r", "\f"} THEN 0
  ELSE StringEnd(s, i + 1)

ParseString(s, i) ==
  IF i <= Len(s) /\ s[i] = "\""
  THEN LET e == StringEnd(s, i + 1)
       IN IF e = 0 THEN PFail ELSE POk(JStr(SubSeq(s, i + 1, e - 1)), e + 1)
  ELSE PFail

DigitVal(c) ==
  CASE c = "0" -> 0 [] c = "1" -> 1 [] c = "2" -> 2 [] c = "3" -> 3
    [] c = "4" -> 4 [] c = "5" -> 5 [] c = "6" -> 6 [] c = "7" -> 7
    [] c = "8" -> 8 [] c = "9" -> 9

RECURSIVE DigitsEnd(_, _)
DigitsEnd(s, i) ==
  IF i <= Len(s) /\ s[i] \in Digits THEN DigitsEnd(s, i + 1) ELSE i

RECURSIVE DigitsVal(_, _, _, _)
DigitsVal(s, i, e, acc) ==
  IF i >= e THEN acc ELSE DigitsVal(s, i + 1, e, acc * 10 + DigitVal(s[i]))

\* -?(0|[1-9][0-9]*)
ParseNumber(s, i) ==
  LET neg == i <= Len(s) /\ s[i] = "-"
      b == IF neg THEN i + 1 ELSE i
      e == IF b <= Len(s) /\ s[b] = "0" THEN b + 1 ELSE DigitsEnd(s, b)
      n == DigitsVal(s, b, e, 0)
  IN IF e = b THEN PFail ELSE POk(JNum(IF neg THEN 0 - n ELSE n), e)

RECURSIVE ParseValue(_, _)
RECURSIVE ParseElems(_, _, _)
RECURSIVE ParseMembers(_, _, _)

\* after "[" or ",": one value, then "," or "]"
ParseElems(s, i, acc) ==
  LET r == ParseValue(s, SkipWs(s, i))
      j == SkipWs(s, r.next)
  IN IF ~r.ok \/ j > Len(s) THEN PFail
     ELSE IF s[j] = "," THEN ParseElems(s, j + 1, Append(acc, r.val))
     ELSE IF s[j] = "]" THEN POk(JArr(Append(acc, r.val)), j + 1)
     ELSE PFail

\* after "{" or ",": "key" : value, then "," or "}"
ParseMembers(s, i, acc) ==
  LET k == ParseString(s, SkipWs(s, i))
      c == SkipWs(s, k.next)
      r == ParseValue(s, SkipWs(s, c + 1))
      j == SkipWs(s, r.next)
      m == [k |-> k.val.v, v |-> r.val]
  IN IF ~k.ok \/ c > Len(s) THEN PFail
     ELSE IF s[c] # ":" THEN PFail
     ELSE IF ~r.ok \/ j > Len(s) THEN PFail
     ELSE IF s[j] = "," THEN ParseMembers(s, j + 1, Append(acc, m))
     ELSE IF s[j] = "}" THEN POk(JObj(Append(acc, m)), j + 1)
     ELSE PFail

ParseValue(s, i) ==
  IF i > Len(s) THEN PFail
  ELSE IF s[i] = "\"" THEN ParseString(s, i)
  ELSE IF s[i] = "{" THEN
    LET j == SkipWs(s, i + 1)
    IN IF j <= Len(s) /\ s[j] = "}" THEN POk(JObj(<<>>), j + 1)
       ELSE ParseMembers(s, i + 1, <<>>)
  ELSE IF s[i] = "[" THEN
    LET j == SkipWs(s, i + 1)
    IN IF j <= Len(s) /\ s[j] = "]" THEN POk(JArr(<<>>), j + 1)
       ELSE ParseElems(s, i + 1, <<>>)
  ELSE IF StartsAt(s, i, W_true) THEN POk(JBool(TRUE), i + 4)
  ELSE IF StartsAt(s, i, W_false) THEN POk(JBool(FALSE), i + 5)
  ELSE IF StartsAt(s, i, W_null) THEN POk(JNull, i + 4)
  ELSE ParseNumber(s, i)

\* json.loads(s): [ok |-> FALSE] stands for the exception it raises
JsonLoads(s) ==
  LET r == ParseValue(s, SkipWs(s, 1))
  IN IF r.ok /\ SkipWs(s, r.next) = Len(s) + 1
     THEN [ok |-> TRUE, val |-> r.val]
     ELSE [ok |-> FALSE, val |-> JNull]

\* dict.get(key): the last member of that name wins, None when absent
RECURSIVE DictGetFrom(_, _, _)
DictGetFrom(members, key, n) ==
  IF n = 0 THEN JNull
  ELSE IF members[n].k = key THEN members[n].v
  ELSE DictGetFrom(members, key, n - 1)

DictGet(obj, key) == DictGetFrom(obj.v, key, Len(obj.v))

\* Python truthiness of a parsed value
Truthy(x) ==
  CASE x.t = "null" -> FALSE
    [] x.t = "bool" -> x.v
    [] x.t = "num" -> x.v # 0
    [] x.t = "str" -> Len(x.v) > 0
    [] x.t = "arr" -> Len(x.v) > 0
    [] x.t = "obj" -> Len(x.v) > 0

\* Python's `a or b`
PyOr(a, b) == IF Truthy(a) THEN a ELSE b

(***************************************************************************)
(* re.search(r"(?:value|Token value)\s*:\s*([A-Za-z0-9\.\-_]+)", out)        *)
(***************************************************************************)
ReSpace == {" ", "\t", "\n", "\r", "\f"}

SecretChars == LowerLetters \cup UpperLetters \cup Digits \cup {".", "-", "_"}

RECURSIVE SkipSpace(_, _)
SkipSpace(s, i) ==
  IF i <= Len(s) /\ s[i] \in ReSpace THEN SkipSpace(s, i + 1) ELSE i

RECURSIVE ClassEnd(_, _)
ClassEnd(s, i) ==
  IF i <= Len(s) /\ s[i] \in SecretChars THEN ClassEnd(s, i + 1) ELSE i

\* the pattern anchored at i: [ok, group]
SecretMatchAt(s, i) ==
  LET l == IF StartsAt(s, i, W_value) THEN i + Len(W_value)
           ELSE IF StartsAt(s, i, W_Token_value) THEN i + Len(W_Token_value)
           ELSE 0
      c == SkipSpace(s, l)
      b == SkipSpace(s, c + 1)
      e == ClassEnd(s, b)
  IN IF l = 0 \/ c > Len(s) THEN [ok |-> FALSE, group |-> <<>>]
     ELSE IF s[c] # ":" \/ e = b THEN [ok |-> FALSE, group |-> <<>>]
     ELSE [ok |-> TRUE, group |-> SubSeq(s, b, e - 1)]

\* the leftmost match
RECURSIVE SecretSearchFrom(_, _)
SecretSearchFrom(s, i) ==
  IF i > Len(s) THEN [ok |-> FALSE, group |-> <<>>]
  ELSE IF SecretMatchAt(s, i).ok THEN SecretMatchAt(s, i)
  ELSE SecretSearchFrom(s, i + 1)


(***************************************************************************)
(* Errors.  A RuntimeError message is head + raw + tail, where raw is the  *)
(* command output the f-string embeds (empty when it embeds none).  An     *)
(* exception without message has the empty text: a handler that prints it  *)
(* prints an empty line, and stderr holds the text of NoError.             *)
(***************************************************************************)
NoError == [head |-> "", raw |-> <<>>, tail |-> ""]
RuntimeError(head, raw, tail) == [head |-> head, raw |-> raw, tail |-> tail]

MsgListFailed == "Failed to list users:\n"
MsgAddFailed == "Failed to create user:\n"
MsgPasswordFailed == "Failed to set password for ansible@pve.\nLast output:\n"
MsgTokenExists ==
  "Token already exists and Proxmox will not re-show the secret.\nDelete it (pveum user token delete ...) or choose a new token name."
MsgTokenFailed == "Failed to create token:\n"
MsgSecretLoss == "Token created but could not detect the secret automatically.\nRaw output was:\n"
MsgSecretLossTail == "\nPlease capture the secret now; Proxmox shows it only once."
MsgAclFailed == "Failed to assign ACL on "
MsgNoParamiko == "paramiko is required for SSH. Install with: pip install paramiko"
MsgConnectFailed == "SSH connection failed: "
MsgEOF == "EOF when reading a line"

\* str(e) of the EOFError input() raises at end of input: the message when
\* stdin is a pipe or a file, none when it is a terminal
InputEOF == {MsgEOF, ""}
\* str(e) of the EOFError getpass() raises at end of input: none
GetpassEOF == {""}

\* str(e) of what the connect block can raise: ssh_client.connect, or the key
\* path input() and the SSH password getpass() at end of input
ConnectErrors == {"Authentication failed.", "timed out"} \cup InputEOF \cup GetpassEOF
\* str(e) of what exec_command can raise, before the server ran the command
ExecErrors == {"SSH session not active", ""}
\* str(e) of what read(), decode() can raise, after the server ran the
\* command: a read that times out (with or without message), an output
\* whose first byte is not UTF-8
ReadErrors ==
  {"timed out", "",
   "'utf-8' codec can't decode byte 0xff in position 0: invalid start byte"}

(***************************************************************************)
(* Values main() fixes                                                     *)
(***************************************************************************)
UserPrincipal == <<"a","n","s","i","b","l","e","@","p","v","e">>
TokenName == <<"a","n","s","i","b","l","e">>
Role == "PVEAdmin"
MinPasswordLen == 8

(***************************************************************************)
(* The platform behind the runner: the pveum CLI on the node.  It holds    *)
(* the users and the token, answers a command with (rc, output), and may   *)
(* reject a structured-output flag, ignore it, fail for a reason of its    *)
(* own, or be unreachable (the runner raises).  JSON is printed only in    *)
(* answer to a structured-output flag.                                     *)
(***************************************************************************)
RootPam == <<"r","o","o","t","@","p","a","m">>
Lookalike == <<"x","a","n","s","i","b","l","e","@","p","v","e">>
\* listing order
AllPrincipals == <<RootPam, Lookalike, UserPrincipal>>

Secrets == {<<"a","b","-","1">>, <<"c",".","d","_","2">>}

Passwords == {<<"p","w">>, <<"h","u","n","t","e","r","2","h","u","n","t","e","r","2">>, <<"P","a","s","s","w","0","r","d","!","x">>}

T_denied == <<"p","e","r","m","i","s","s","i","o","n"," ","d","e","n","i","e","d","\n">>
T_unknown_option == <<"U","n","k","n","o","w","n"," ","o","p","t","i","o","n",":"," ","f","o","r","m","a","t","\n">>
T_unknown_command == <<"u","n","k","n","o","w","n"," ","c","o","m","m","a","n","d","\n">>
T_no_such_user == <<"n","o"," ","s","u","c","h"," ","u","s","e","r","\n">>
T_user_exists == <<"c","r","e","a","t","e"," ","u","s","e","r"," ","f","a","i","l","e","d",":"," ","u","s","e","r"," ","'","a","n","s","i","b","l","e","@","p","v","e","'"," ","a","l","r","e","a","d","y"," ","e","x","i","s","t","s","\n">>
T_User_Exists == <<"U","s","e","r"," ","A","l","r","e","a","d","y"," ","E","x","i","s","t","s","\n">>
T_token_exists == <<"T","o","k","e","n"," ","a","l","r","e","a","d","y"," ","e","x","i","s","t","s","\n">>
T_TOKEN_EXISTS == <<"T","O","K","E","N"," ","A","L","R","E","A","D","Y"," ","E","X","I","S","T","S","\n">>
T_token_created == <<"t","o","k","e","n"," ","c","r","e","a","t","e","d","\n">>

Quoted(s) == <<"\"">> \o s \o <<"\"">>
Member(key, val) == Quoted(key) \o <<":">> \o val
Object(members) == <<"{">> \o members \o <<"}">>

RECURSIVE JoinRecords(_, _)
JoinRecords(us, i) ==
  IF i > Len(us) THEN <<>>
  ELSE (IF i > 1 THEN <<",">> ELSE <<>>)
       \o Object(Member(W_userid, Quoted(us[i]))) \o JoinRecords(us, i + 1)

RECURSIVE JoinLines(_, _)
JoinLines(us, i) ==
  IF i > Len(us) THEN <<>> ELSE us[i] \o <<"\n">> \o JoinLines(us, i + 1)

UsersInOrder(users) == SelectSeq(AllPrincipals, LAMBDA u : u \in users)

\* pveum user list --output-format json: an array of records with 'userid'
RenderUsersJson(users) == <<"[">> \o JoinRecords(UsersInOrder(users), 1) \o <<"]">>

\* pveum user list: a table, one user a line
RenderUsersText(users) == W_userid \o <<"\n">> \o JoinLines(UsersInOrder(users), 1)

\* the shapes in which token creation prints the one-time secret
JsonRecoverable == {"dict_value", "dict_secret", "dict_empty_value_secret", "list_value"}
TextRecoverable == {"text_value", "text_token_value"}
JsonUnrecoverable == {"dict_null", "dict_empty", "dict_empty_both", "dict_other"}
TextUnrecoverable == {"text_plain", "text_table"}
JsonShapes == JsonRecoverable \cup JsonUnrecoverable
TextShapes == TextRecoverable \cup TextUnrecoverable

RenderToken(shape, sec) ==
  CASE shape = "dict_value" ->
         Object(Member(<<"i","n","f","o">>,
                       Object(Member(<<"p","r","i","v","s","e","p">>, Quoted(<<"1">>))))
                \o <<",">> \o Member(W_value, Quoted(sec)))
    [] shape = "dict_secret" -> Object(Member(W_secret, Quoted(sec)))
    [] shape = "dict_empty_value_secret" ->
         Object(Member(W_value, Quoted(<<>>)) \o <<",">> \o Member(W_secret, Quoted(sec)))
    [] shape = "list_value" ->
         <<"[">> \o Object(Member(W_value, Quoted(sec))) \o <<",">>
         \o Object(Member(W_value, Quoted(<<"z","z">>))) \o <<"]">>
    [] shape = "dict_null" -> Object(Member(W_value, W_null))
    [] shape = "dict_empty" -> Object(Member(W_value, Quoted(<<>>)))
    [] shape = "dict_empty_both" ->
         Object(Member(W_value, Quoted(<<>>)) \o <<",">> \o Member(W_secret, Quoted(<<>>)))
    [] shape = "dict_other" -> Object(Member(<<"t","o","k","e","n">>, Quoted(sec)))
    [] shape = "text_value" -> W_value \o <<":", " ">> \o sec \o <<"\n">>
    [] shape = "text_token_value" -> W_Token_value \o <<":", " ">> \o sec \o <<"\n">>
    [] shape = "text_plain" -> T_token_created
    [] shape = "text_table" -> <<"|", " ">> \o W_value \o <<" ", "|", " ">> \o sec \o <<" ", "|", "\n">>

\* the user sets the platform can hold
UserSets == {{RootPam} \cup u : u \in SUBSET {Lookalike, UserPrincipal}}

(***************************************************************************)
(* The text primitives the code applies to an output                       *)
(***************************************************************************)
\* re.search(r"(?:value|Token value)\s*:\s*([A-Za-z0-9\.\-_]+)", out)
SecretSearch(out) == SecretSearchFrom(out, 1)

\* the phrase test without .lower()
AlreadyExistsCased(out) == Contains(out, W_already_exists)

\* "already exists" in out.lower()
AlreadyExistsIn(out) == Contains(Lower(out), W_already_exists)

\* user_principal in out
PrincipalIn(user_principal, out) == Contains(out, user_principal)

(***************************************************************************)
(* prefer_json                                                             *)
(***************************************************************************)
\* the flag of attempt i; attempt 3 is the bare command
PreferJsonFlag(i) ==
  CASE i = 1 -> "--output-format json"
    [] i = 2 -> "--format json"
    [] OTHER -> ""

\* a negotiator that goes on to the next variant when a zero-exit output does
\* not parse
PreferJsonUntilParsed(i, rc, out) ==
  IF i <= 2
  THEN IF rc = 0 /\ JsonLoads(out).ok
       THEN [done |-> TRUE, rc |-> rc, out |-> out, used_json |-> TRUE]
       ELSE [done |-> FALSE, rc |-> rc, out |-> out, used_json |-> FALSE]
  ELSE [done |-> TRUE, rc |-> rc, out |-> out, used_json |-> FALSE]

\* a negotiator that takes a zero exit of a flag variant for structured output
PreferJsonTrustsFlag(i, rc, out) ==
  IF i <= 2
  THEN IF rc = 0
       THEN [done |-> TRUE, rc |-> rc, out |-> out, used_json |-> TRUE]
       ELSE [done |-> FALSE, rc |-> rc, out |-> out, used_json |-> FALSE]
  ELSE [done |-> TRUE, rc |-> rc, out |-> out, used_json |-> FALSE]

\* a negotiator that runs all three commands whatever they return
PreferJsonRunsAll(i, rc, out) ==
  [done |-> i > 2, rc |-> rc, out |-> out, used_json |-> FALSE]

\* what prefer_json does with the result of attempt i: return (done) or go on
PreferJsonStep(i, rc, out) ==
  IF i <= 2
  THEN IF rc = 0
       THEN [done |-> TRUE, rc |-> rc, out |-> out, used_json |-> JsonLoads(out).ok]
       ELSE [done |-> FALSE, rc |-> rc, out |-> out, used_json |-> FALSE]
  ELSE [done |-> TRUE, rc |-> rc, out |-> out, used_json |-> FALSE]

(***************************************************************************)
(* ensure_user                                                             *)
(***************************************************************************)
\* for it in items: if it.get("userid") == user_principal: exists = True; break
\* a non-dict element raises AttributeError, which ends the scan with exists False
RECURSIVE ScanItems(_, _, _)
ScanItems(items, i, user_principal) ==
  IF i > Len(items) THEN FALSE
  ELSE IF items[i].t # "obj" THEN FALSE
  ELSE LET u == DictGet(items[i], W_userid)
       IN IF u.t = "str" /\ u.v = user_principal THEN TRUE
          ELSE ScanItems(items, i + 1, user_principal)

\* the try block: iterating a non-empty dict or str yields str elements, whose
\* .get raises; iterating a number, bool or None raises; all are swallowed
ExistsInItems(d, user_principal) ==
  IF ~d.ok THEN FALSE
  ELSE IF d.val.t = "arr" THEN ScanItems(d.val.v, 1, user_principal)
  ELSE FALSE

\* items = json.loads(out), then the scan
ExistsInJson(out, user_principal) == ExistsInItems(JsonLoads(out), user_principal)

\* a lookup by substring whatever the mode
UserExistsBySubstring(out, used_json, user_principal) ==
  PrincipalIn(user_principal, out)

\* a lookup that never finds the principal
UserExistsNever(out, used_json, user_principal) == FALSE

\* exists after `if used_json:` and `if not exists and not used_json:`
UserExists(out, used_json, user_principal) ==
  IF used_json THEN ExistsInJson(out, user_principal)
  ELSE PrincipalIn(user_principal, out)

\* after prefer_json("pveum user list"): raise, return (False, "exists"), or go
\* on to the create command
EnsureUserListed(rc, out, used_json, user_principal) ==
  IF rc # 0
  THEN [raised |-> TRUE, err |-> RuntimeError(MsgListFailed, out, ""), exists |-> FALSE]
  ELSE [raised |-> FALSE, err |-> NoError,
        exists |-> UserExists(out, used_json, user_principal)]

\* a create step that tolerates every failure
AddToleratesAll(rc, out) == TRUE

\* the tolerance test on the create command's result
AddTolerated(rc, out) == ~(rc # 0 /\ ~AlreadyExistsIn(out))

\* after runner("pveum user add ..."): raise or return (True, out)
EnsureUserAdded(rc, out) ==
  IF ~AddTolerated(rc, out)
  THEN [raised |-> TRUE, err |-> RuntimeError(MsgAddFailed, out, ""), created |-> FALSE]
  ELSE [raised |-> FALSE, err |-> NoError, created |-> TRUE]

(***************************************************************************)
(* create_token                                                            *)
(***************************************************************************)
\* tokenid = f"{user_principal}!{token_name}"
TokenId(user_principal, token_name) == user_principal \o <<"!">> \o token_name

\* a lookup that reads the `value` field only
ValueOnly(obj) == DictGet(obj, W_value)

\* data.get("value") or data.get("secret")
ValueOrSecret(obj) == PyOr(DictGet(obj, W_value), DictGet(obj, W_secret))

\* the `if used_json:` block; None when it is skipped or an exception is swallowed
SecretFromData(d) ==
  IF ~d.ok THEN JNull
  ELSE IF d.val.t = "obj" THEN ValueOrSecret(d.val)
  ELSE IF d.val.t = "arr" /\ Len(d.val.v) > 0
    THEN IF d.val.v[1].t = "obj" THEN ValueOrSecret(d.val.v[1]) ELSE JNull
  ELSE JNull

\* data = json.loads(out), then the lookup
SecretFromJson(out, used_json) ==
  IF used_json THEN SecretFromData(JsonLoads(out)) ELSE JNull

\* the `if secret is None:` block
GroupOf(m) == IF m.ok THEN JStr(m.group) ELSE JNull

SecretFromText(secret, out) ==
  IF secret.t = "null" THEN GroupOf(SecretSearch(out)) ELSE secret

ExtractSecret(out, used_json) == SecretFromText(SecretFromJson(out, used_json), out)

\* the rc != 0 branch
TokenFailure(out) ==
  IF AlreadyExistsIn(out)
  THEN RuntimeError(MsgTokenExists, <<>>, "")
  ELSE RuntimeError(MsgTokenFailed, out, "")

\* create_token after prefer_json returned (rc, out, used_json)
\* a create_token that tests `secret is None` where the code tests `not secret`
TokenOutcomeUnlessNone(user_principal, token_name, rc, out, sec) ==
  IF rc # 0
  THEN [raised |-> TRUE, err |-> TokenFailure(out), tokenid |-> <<>>, secret |-> JNull]
  ELSE IF sec.t = "null"
  THEN [raised |-> TRUE, err |-> RuntimeError(MsgSecretLoss, out, MsgSecretLossTail),
        tokenid |-> <<>>, secret |-> JNull]
  ELSE [raised |-> FALSE, err |-> NoError,
        tokenid |-> TokenId(user_principal, token_name), secret |-> sec]

\* create_token once prefer_json returned and the secret was looked for
TokenOutcome(user_principal, token_name, rc, out, sec) ==
  IF rc # 0
  THEN [raised |-> TRUE, err |-> TokenFailure(out), tokenid |-> <<>>, secret |-> JNull]
  ELSE IF ~Truthy(sec)
  THEN [raised |-> TRUE, err |-> RuntimeError(MsgSecretLoss, out, MsgSecretLossTail),
        tokenid |-> <<>>, secret |-> JNull]
  ELSE [raised |-> FALSE, err |-> NoError,
        tokenid |-> TokenId(user_principal, token_name), secret |-> sec]

CreateToken(user_principal, token_name, rc, out, used_json) ==
  TokenOutcome(user_principal, token_name, rc, out, ExtractSecret(out, used_json))

(***************************************************************************)
(* The commands main() builds.  A command is a record of the base command  *)
(* and its arguments as the remote shell receives them (shlex.quote        *)
(* protects an argument from the shell and does not change it).            *)
(***************************************************************************)
Cmd(base, who, tok, path, how, opts, pw) ==
  [base |-> base, who |-> who, tok |-> tok, path |-> path, how |-> how,
   opts |-> opts, pw |-> pw, fmt |-> ""]

\* f"{cmd_base} {flag}"; the bare command carries no flag
WithFlag(cmd, flag) == [cmd EXCEPT !.fmt = flag]

UserListCmd == Cmd("pveum user list", <<>>, <<>>, "", "", "", <<>>)

\* the create variant has no password parameter: it passes <<>>
UserAddCmd(user_principal, password) ==
  Cmd("pveum user add", user_principal, <<>>, "", "",
      IF Len(password) > 0 THEN "--comment --password" ELSE "--comment",
      password)

\* the two attempts in the other order
SetPasswordCmdSwapped(i, user_principal, password) ==
  Cmd(IF i = 1 THEN "pveum passwd" ELSE "pveum user modify",
      user_principal, <<>>, "", "", "--password", password)

\* attempts[i] of set_user_password
SetPasswordCmd(i, user_principal, password) ==
  Cmd(IF i = 1 THEN "pveum user modify" ELSE "pveum passwd",
      user_principal, <<>>, "", "", "--password", password)

TokenAddCmd(user_principal, token_name, privsep) ==
  Cmd("pveum user token add", user_principal, token_name, "", "",
      IF privsep THEN "--privsep 1" ELSE "--privsep 0", <<>>)

\* an assign_acl that grants on the root path whatever path it is given
AssignAclCmdRoot(path, principal, role, is_token) ==
  Cmd("pveum aclmod", principal, <<>>, "/",
      IF is_token THEN "-token" ELSE "-user", "-role " \o role, <<>>)

AssignAclCmd(path, principal, role, is_token) ==
  Cmd("pveum aclmod", principal, <<>>, path,
      IF is_token THEN "-token" ELSE "-user", "-role " \o role, <<>>)

\* a choice that grants to the user whatever privsep is
AclPrincipalUser(privsep, full_tokenid, user_principal) == user_principal

\* main's choice of the ACL principal
AclPrincipal(privsep, full_tokenid, user_principal) ==
  IF privsep THEN full_tokenid ELSE user_principal

\* one answer of the server to a command: (rc, out), with the effect the
\* command had on the platform
Result(rc, out) ==
  [raised |-> FALSE, intr |-> FALSE, rc |-> rc, out |-> out, exc |-> "",
   eff |-> "none", shape |-> "", sec |-> <<>>]
Effect(rc, out, eff, shape, sec) ==
  [raised |-> FALSE, intr |-> FALSE, rc |-> rc, out |-> out, exc |-> "",
   eff |-> eff, shape |-> shape, sec |-> sec]

\* run_ssh raised str(e) = text; `o` is what the server had done by then, and
\* its effect on the platform stays
TransportError(text, o) ==
  [raised |-> TRUE, intr |-> FALSE, rc |-> -1, out |-> <<>>, exc |-> text,
   eff |-> o.eff, shape |-> o.shape, sec |-> o.sec]

\* Ctrl-C while run_ssh waits: KeyboardInterrupt, which has no message;
\* `o` is what the server had done by then
KeyboardInterrupt(o) ==
  [raised |-> TRUE, intr |-> TRUE, rc |-> -1, out |-> <<>>, exc |-> "",
   eff |-> o.eff, shape |-> o.shape, sec |-> o.sec]

\* the command never reached the server
NotRun == Result(-1, <<>>)

\* run_ssh on a command the server would answer with one of `answers`:
\* exec_command raises, or the server runs the command and read / decode
\* raises, or (rc, out) is returned; the operator can interrupt it at any
\* point
RunSsh(answers) ==
  answers
  \cup {TransportError(t, NotRun) : t \in ExecErrors}
  \cup {TransportError(t, o) : t \in ReadErrors, o \in answers}
  \cup {KeyboardInterrupt(o) : o \in answers \cup {NotRun}}

\* str(e) of what subprocess.run can raise before the shell ran the command
LocalExecErrors == {"[Errno 11] Resource temporarily unavailable"}
\* str(e) of what subprocess.run(text=True) can raise after the command ran:
\* an output whose first byte is not UTF-8
LocalReadErrors ==
  {"'utf-8' codec can't decode byte 0xff in position 0: invalid start byte"}

\* run_local on a command the node would answer with one of `answers`:
\* subprocess.run in a local shell returns (returncode, stdout with stderr),
\* or raises before or after the command ran; the operator can interrupt it
RunLocal(answers) ==
  answers
  \cup {TransportError(t, NotRun) : t \in LocalExecErrors}
  \cup {TransportError(t, o) : t \in LocalReadErrors, o \in answers}
  \cup {KeyboardInterrupt(o) : o \in answers \cup {NotRun}}

\* main's use_ssh: a literal, the question that set it is commented out
use_ssh == TRUE

\* main's runner: lambda cmd: run_ssh(ssh, cmd), or lambda cmd: run_local(cmd)
Runner(answers) == IF use_ssh THEN RunSsh(answers) ELSE RunLocal(answers)

\* refusals every command can meet
Faults(flag) ==
  {Result(1, T_denied)}
  \cup (IF flag # "" THEN {Result(2, T_unknown_option)} ELSE {})

ListResults(flag, users) ==
  Faults(flag)
  \cup {Result(0, RenderUsersText(users))}
  \cup (IF flag # "" THEN {Result(0, RenderUsersJson(users))} ELSE {})

AddResults(users) ==
  {Result(1, T_denied)}
  \cup (IF UserPrincipal \in users
        THEN {Result(2, T_user_exists), Result(2, T_User_Exists)}
        ELSE {Effect(0, <<>>, "add_user", "", <<>>)})

SetPasswordResults(i) ==
  {Result(0, <<>>), Result(1, T_denied), Result(2, T_unknown_command)}

TokenResults(flag, users, token_exists) ==
  Faults(flag)
  \cup (IF UserPrincipal \notin users THEN {Result(2, T_no_such_user)}
        ELSE IF token_exists THEN {Result(2, T_token_exists), Result(2, T_TOKEN_EXISTS)}
        ELSE {Effect(0, RenderToken(sh, sec), "mint", sh, sec) :
                sh \in (IF flag # "" THEN JsonShapes \cup TextShapes ELSE TextShapes),
                sec \in Secrets})

AclResults(users, token_exists, is_token) ==
  {Result(1, T_denied)}
  \cup (IF UserPrincipal \in users /\ (is_token => token_exists)
        THEN {Result(0, <<>>)}
        ELSE {Result(2, T_no_such_user)})

(***************************************************************************)
(* Bounds                                                                  *)
(***************************************************************************)
\* the longest list of ACL paths a run is given
MaxPaths == 2
\* the number of runs of the script against the same platform
MaxRuns == 3

AllPaths == <<"/", "/vms", "/storage", "/pool">>

(***************************************************************************)
(* State                                                                   *)
(***************************************************************************)
VARIABLES
  variant,          \* which script runs: "create" or "generate"
  privsep,          \* main's privsep
  acl_paths,        \* main's acl_paths
  pc,               \* the blocking step main() is at
  step,             \* the attempt or the path index within that step
  ssh,              \* the SSH session: "none", "open", "closed"
  chosen_password,  \* main's chosen_password (generate)
  created,          \* ensure_user's result: "unset", "true", "false"
  pj_ret,           \* what prefer_json returned, if the last command ended one
  full_tokenid,     \* main's full_tokenid
  secret,           \* main's secret
  stdout,           \* what main printed, in order
  stderr,           \* the error main printed
  bundle,           \* the credential bundle printed at the end
  exit_code,        \* the process's exit status as the shell reports it, -1 while it runs
  failed_at,        \* the step at which the run failed
  log,              \* the commands the current stage handed to the runner, with rc
  trail,            \* the base commands of this run in order, repeats collapsed
  resp,             \* the last result of the runner
  users,            \* platform: the users that exist
  token_exists,     \* platform: the token UserPrincipal!TokenName exists
  minted,           \* a command of this run created the token
  issued,           \* the shape and the secret the platform printed for it
  runs,             \* the number of the current run
  prev_created,     \* the `created` of the previous run's ensure_user
  prev_minted       \* an earlier run created the token

config == <<variant, privsep, acl_paths>>
frame == <<pc, step, ssh, chosen_password, created, pj_ret, full_tokenid,
           secret, stdout, stderr, bundle, exit_code, failed_at>>
runner == <<log, trail, resp>>
platform == <<users, token_exists, minted, issued>>
past == <<runs, prev_created, prev_minted>>
vars == <<config, frame, runner, platform, past>>

NoSecret == JNull
NoIssue == [shape |-> "", sec |-> <<>>]
NoResp == [raised |-> FALSE, rc |-> 0, out |-> <<>>]
NoRet == [set |-> FALSE, rc |-> 0, out |-> <<>>, used_json |-> FALSE]
Ret(pj) == [set |-> TRUE, rc |-> pj.rc, out |-> pj.out, used_json |-> pj.used_json]

\* main's frame as a record, and the assignment of one
Frame ==
  [pc |-> pc, step |-> step, ssh |-> ssh, chosen_password |-> chosen_password,
   created |-> created, pj_ret |-> pj_ret, full_tokenid |-> full_tokenid,
   secret |-> secret, stdout |-> stdout, stderr |-> stderr, bundle |-> bundle,
   exit_code |-> exit_code, failed_at |-> failed_at]

Become(f) ==
  /\ pc' = f.pc
  /\ step' = f.step
  /\ ssh' = f.ssh
  /\ chosen_password' = f.chosen_password
  /\ created' = f.created
  /\ pj_ret' = f.pj_ret
  /\ full_tokenid' = f.full_tokenid
  /\ secret' = f.secret
  /\ stdout' = f.stdout
  /\ stderr' = f.stderr
  /\ bundle' = f.bundle
  /\ exit_code' = f.exit_code
  /\ failed_at' = f.failed_at

StartFrame ==
  [pc |-> "connect", step |-> 1, ssh |-> "none", chosen_password |-> <<>>,
   created |-> "unset", pj_ret |-> NoRet, full_tokenid |-> <<>>,
   secret |-> NoSecret, stdout |-> <<>>, stderr |-> NoError, bundle |-> <<>>,
   exit_code |-> -1, failed_at |-> ""]

\* how a call of ssh.close() ends: it returns, the operator interrupts it
\* (KeyboardInterrupt), or it raises
CloseOutcomes == {"returned", "interrupted", "raised"}
\* str(e) of what ssh.close() can raise
CloseErrors == {"Socket is closed"}

\* a handler that prints the error and lets main go on
CaughtGoesOn(f, err) == [f EXCEPT !.stderr = err, !.failed_at = f.pc]

\* except Exception as e: print(str(e), file=sys.stderr); if ssh: main goes
\* into ssh.close(), with the message printed and the process not exited;
\* without a session, sys.exit(1) at once
Caught(f, err) ==
  IF f.ssh = "open"
  THEN [f EXCEPT !.pc = "close", !.stderr = err, !.failed_at = f.pc]
  ELSE [f EXCEPT !.pc = "exited", !.stderr = err, !.exit_code = 1,
                 !.failed_at = f.pc]

\* a handler whose exit status after the close is 0
HandlerExitsZero(f, c) ==
  [f EXCEPT !.pc = "exited", !.ssh = "closed", !.exit_code = 0]

\* the handler's ssh.close() ended with outcome c.  When it returns:
\* sys.exit(1).  When it is interrupted or raises, the exception leaves the
\* handler: the session is not closed, sys.exit(1) is not reached, and the
\* process ends with the traceback, by SIGINT (status 130) or with status 1.
HandlerClosed(f, c) ==
  CASE c = "returned" ->
         [f EXCEPT !.pc = "exited", !.ssh = "closed", !.exit_code = 1]
    [] c = "interrupted" -> [f EXCEPT !.pc = "exited", !.exit_code = 130]
    [] c = "raised" -> [f EXCEPT !.pc = "exited", !.exit_code = 1]

\* an exception outside every try block: the traceback, exit status 1
Uncaught(f, err) ==
  [f EXCEPT !.pc = "exited", !.stderr = err, !.exit_code = 1, !.failed_at = f.pc]

\* KeyboardInterrupt is not an Exception: no handler of main catches it and
\* the session is left as it is; the traceback, and the process ends by
\* SIGINT, which the shell reports as exit status 130
Interrupted(f) ==
  [f EXCEPT !.pc = "exited", !.stderr = RuntimeError("", <<>>, ""),
            !.exit_code = 130, !.failed_at = f.pc]

\* the runner raised result o inside one of main's try blocks
Raised(f, o) ==
  IF o.intr THEN Interrupted(f) ELSE Caught(f, RuntimeError(o.exc, <<>>, ""))

\* the bundle main prints last
Bundle(tokenid, sec) ==
  [api_user |-> UserPrincipal, api_token_id |-> tokenid, api_token_secret |-> sec,
   validate_certs |-> FALSE]

\* main after the ACL stage, once `if ssh: ssh.close()` ended with outcome
\* c: the bundle and exit status 0 when it returned (or there was no
\* session).  When close() is interrupted or raises str(e) = text, outside
\* every try block, the process ends with the traceback and no bundle is
\* printed.
Finished(f, tokenid, sec, c, text) ==
  CASE c = "returned" ->
         [f EXCEPT !.stdout = Append(f.stdout, "Ansible vars"),
                   !.ssh = IF f.ssh = "open" THEN "closed" ELSE f.ssh,
                   !.bundle = <<Bundle(tokenid, sec)>>,
                   !.exit_code = 0, !.pc = "exited"]
    [] c = "interrupted" ->
         [f EXCEPT !.pc = "exited", !.stderr = RuntimeError("", <<>>, ""),
                   !.exit_code = 130, !.failed_at = "close"]
    [] c = "raised" ->
         [f EXCEPT !.pc = "exited", !.stderr = RuntimeError(text, <<>>, ""),
                   !.exit_code = 1, !.failed_at = "close"]

\* print("ACL(s) applied ..."), then `if ssh:` main goes into ssh.close(),
\* with the bundle not printed yet; without a session, the bundle at once
AclStageDone(f, tokenid, sec) ==
  IF f.ssh = "open"
  THEN [f EXCEPT !.stdout = Append(f.stdout, "ACL(s) applied"), !.pc = "close"]
  ELSE Finished([f EXCEPT !.stdout = Append(f.stdout, "ACL(s) applied")],
                tokenid, sec, "returned", "")

\* the stage a base command belongs to
StageOf(base) ==
  CASE base \in {"pveum user list", "pveum user add"} -> "ensure_user"
    [] base \in {"pveum user modify", "pveum passwd"} -> "set_user_password"
    [] base = "pveum user token add" -> "create_token"
    [] base = "pveum aclmod" -> "assign_acl"

\* runner(cmd) returned or raised o: the log, and the platform's change
Called(cmd, o) ==
  /\ log' = Append(IF log # <<>> /\ StageOf(log[Len(log)].cmd.base) # StageOf(cmd.base)
                   THEN <<>> ELSE log,
                   [cmd |-> cmd, rc |-> o.rc])
  /\ trail' = IF trail # <<>> /\ trail[Len(trail)] = cmd.base THEN trail
              ELSE Append(trail, cmd.base)
  /\ resp' = [raised |-> o.raised, rc |-> o.rc, out |-> o.out]
  /\ users' = IF o.eff = "add_user" THEN users \cup {UserPrincipal} ELSE users
  /\ token_exists' = (token_exists \/ o.eff = "mint")
  /\ minted' = (minted \/ o.eff = "mint")
  /\ issued' = IF o.eff = "mint" THEN [shape |-> o.shape, sec |-> o.sec] ELSE issued

Init ==
  /\ variant \in {"create", "generate"}
  /\ privsep \in BOOLEAN
  /\ acl_paths \in {SubSeq(AllPaths, 1, n) : n \in 1..MaxPaths}
  /\ pc = StartFrame.pc
  /\ step = StartFrame.step
  /\ ssh = StartFrame.ssh
  /\ chosen_password = StartFrame.chosen_password
  /\ created = StartFrame.created
  /\ pj_ret = StartFrame.pj_ret
  /\ full_tokenid = StartFrame.full_tokenid
  /\ secret = StartFrame.secret
  /\ stdout = StartFrame.stdout
  /\ stderr = StartFrame.stderr
  /\ bundle = StartFrame.bundle
  /\ exit_code = StartFrame.exit_code
  /\ failed_at = StartFrame.failed_at
  /\ log = <<>>
  /\ trail = <<>>
  /\ resp = NoResp
  /\ users \in UserSets
  /\ token_exists \in {t \in BOOLEAN : t => UserPrincipal \in users}
  /\ minted = FALSE
  /\ issued = NoIssue
  /\ runs = 1
  /\ prev_created = "unset"
  /\ prev_minted = FALSE

(***************************************************************************)
(* main()                                                                  *)
(***************************************************************************)
\* the step after the session is up: the generate script asks for a password
AfterConnect == IF variant = "generate" THEN "password" ELSE "list"

\* paramiko is None: the message, sys.exit(1)
NoParamiko ==
  /\ use_ssh
  /\ pc = "connect"
  /\ Become([Frame EXCEPT !.pc = "exited", !.exit_code = 1, !.failed_at = "connect",
                          !.stderr = RuntimeError(MsgNoParamiko, <<>>, "")])
  /\ UNCHANGED <<config, runner, platform, past>>

\* input("Proxmox host ...") or prompt_bool("Use SSH key authentication?")
\* meets the end of input, before the try block: EOFError leaves main();
\* so does the input("Ansible proxmox.api_host ...") of a local run
ConnectPromptEOF ==
  /\ pc = "connect"
  /\ \E e \in InputEOF : Become(Uncaught(Frame, RuntimeError(e, <<>>, "")))
  /\ UNCHANGED <<config, runner, platform, past>>

\* the try block raised e (the key path prompt, getpass, ssh_client.connect):
\* f"SSH connection failed: {e}", sys.exit(1)
ConnectFailed ==
  /\ use_ssh
  /\ pc = "connect"
  /\ \E e \in ConnectErrors :
       Become([Frame EXCEPT !.pc = "exited", !.exit_code = 1, !.failed_at = "connect",
                            !.stderr = RuntimeError(MsgConnectFailed, <<>>, e)])
  /\ UNCHANGED <<config, runner, platform, past>>

\* ssh = ssh_client and the runner over it; a local run has no session
Connected ==
  /\ pc = "connect"
  /\ Become([Frame EXCEPT !.pc = AfterConnect,
                          !.ssh = IF use_ssh THEN "open" ELSE "none"])
  /\ UNCHANGED <<config, runner, platform, past>>

\* prompt_password_twice: one round of the loop with the operator typing p1, p2
PromptPassword ==
  /\ pc = "password"
  /\ \E p1 \in Passwords, p2 \in Passwords :
       IF Len(p1) < MinPasswordLen \/ p1 # p2
       THEN Become(Frame)
       ELSE Become([Frame EXCEPT !.pc = "list", !.chosen_password = p1])
  /\ UNCHANGED <<config, runner, platform, past>>

\* getpass raises EOFError inside prompt_password_twice, outside every try
PromptPasswordEOF ==
  /\ pc = "password"
  /\ \E e \in GetpassEOF : Become(Uncaught(Frame, RuntimeError(e, <<>>, "")))
  /\ UNCHANGED <<config, runner, platform, past>>

\* a main that goes from the user stage straight to the ACL stage
UserStageThenAcl(f, was_created) ==
  [f EXCEPT !.created = IF was_created THEN "true" ELSE "false", !.pc = "acl", !.step = 1]

\* the frame after ensure_user returned (created, msg)
UserStageDone(f, was_created) ==
  IF was_created
  THEN [f EXCEPT !.created = "true", !.stdout = Append(f.stdout, "User created"),
                 !.pc = "token", !.step = 1]
  ELSE [f EXCEPT !.created = "false", !.stdout = Append(f.stdout, "User exists"),
                 !.pc = IF variant = "generate" THEN "reset_prompt" ELSE "token",
                 !.step = 1]

\* ensure_user, one command of prefer_json("pveum user list") and what follows it
ListUsers ==
  /\ pc = "list"
  /\ \E o \in Runner(ListResults(PreferJsonFlag(step), users)) :
     \E pj \in {PreferJsonStep(step, o.rc, o.out)} :
     \E r \in {EnsureUserListed(pj.rc, pj.out, pj.used_json, UserPrincipal)} :
     \E f \in {[Frame EXCEPT !.pj_ret = Ret(pj)]}, g \in {[Frame EXCEPT !.pj_ret = NoRet]} :
          /\ Called(WithFlag(UserListCmd, PreferJsonFlag(step)), o)
          /\ IF o.raised THEN Become(Raised(g, o))
             ELSE IF ~pj.done THEN Become([g EXCEPT !.step = step + 1])
             ELSE IF r.raised THEN Become(Caught(f, r.err))
             ELSE IF r.exists THEN Become(UserStageDone(f, FALSE))
             ELSE Become([f EXCEPT !.pc = "add", !.step = 1])
  /\ UNCHANGED <<config, past>>

\* ensure_user, the create command
AddUser ==
  /\ pc = "add"
  /\ \E o \in Runner(AddResults(users)) :
     \E r \in {EnsureUserAdded(o.rc, o.out)}, g \in {[Frame EXCEPT !.pj_ret = NoRet]} :
          /\ Called(UserAddCmd(UserPrincipal, chosen_password), o)
          /\ IF o.raised THEN Become(Raised(g, o))
             ELSE IF r.raised THEN Become(Caught(g, r.err))
             ELSE Become(UserStageDone(g, r.created))
  /\ UNCHANGED <<config, past>>

\* another actor creates the user while main is between the listing and the
\* create command, or while it waits in ssh.close()
OtherActorAddsUser ==
  /\ pc \in {"add", "close"}
  /\ UserPrincipal \notin users
  /\ users' = users \cup {UserPrincipal}
  /\ UNCHANGED <<config, frame, runner, token_exists, minted, issued, past>>

\* prompt_bool("Reset the user's password ...", False)
ResetPrompt ==
  /\ pc = "reset_prompt"
  /\ \E answer \in {"y", "n", "eof"} :
       CASE answer = "y" -> Become([Frame EXCEPT !.pc = "set_password", !.step = 1])
         [] answer = "n" -> Become([Frame EXCEPT !.pc = "token", !.step = 1])
         [] answer = "eof" ->
              \E e \in InputEOF :
                Become(Caught(Frame, RuntimeError(e, <<>>, "")))
  /\ UNCHANGED <<config, runner, platform, past>>

\* Ctrl-C at a prompt of main: the host, key question, key path and SSH
\* password prompts and connect, the password entry, the reset question
PromptInterrupted ==
  /\ pc \in {"connect", "password", "reset_prompt"}
  /\ Become(Interrupted(Frame))
  /\ UNCHANGED <<config, runner, platform, past>>

\* set_user_password, attempt `step`; last_out is the output of this attempt
SetUserPassword ==
  /\ pc = "set_password"
  /\ \E o \in Runner(SetPasswordResults(step)) :
     \E g \in {[Frame EXCEPT !.pj_ret = NoRet]} :
          /\ Called(SetPasswordCmd(step, UserPrincipal, chosen_password), o)
          /\ IF o.raised THEN Become(Raised(g, o))
             ELSE IF o.rc = 0
             THEN Become([g EXCEPT !.stdout = Append(stdout, "Password updated."),
                                   !.pc = "token", !.step = 1])
             ELSE IF step < 2 THEN Become([g EXCEPT !.step = step + 1])
             ELSE Become(Caught(g, RuntimeError(MsgPasswordFailed, o.out, "")))
  /\ UNCHANGED <<config, past>>

\* create_token, one command of prefer_json(base) and what follows it
CreateTokenStep ==
  /\ pc = "token"
  /\ \E o \in Runner(TokenResults(PreferJsonFlag(step), users, token_exists)) :
     \E pj \in {PreferJsonStep(step, o.rc, o.out)} :
     \E r \in {CreateToken(UserPrincipal, TokenName, pj.rc, pj.out, pj.used_json)} :
     \E f \in {[Frame EXCEPT !.pj_ret = Ret(pj)]}, g \in {[Frame EXCEPT !.pj_ret = NoRet]} :
          /\ Called(WithFlag(TokenAddCmd(UserPrincipal, TokenName, privsep),
                             PreferJsonFlag(step)), o)
          /\ IF o.raised THEN Become(Raised(g, o))
             ELSE IF ~pj.done THEN Become([g EXCEPT !.step = step + 1])
             ELSE IF r.raised THEN Become(Caught(f, r.err))
             ELSE Become([f EXCEPT !.full_tokenid = r.tokenid, !.secret = r.secret,
                                   !.stdout = stdout \o <<"Token created", "SECRET">>,
                                   !.pc = "acl", !.step = 1])
  /\ UNCHANGED <<config, past>>

\* assign_acl for acl_paths[step]; after the last path main goes on to close
\* the session
AssignAcl ==
  /\ pc = "acl"
  /\ \E o \in Runner(AclResults(users, token_exists, privsep)) :
     \E g \in {[Frame EXCEPT !.pj_ret = NoRet]} :
          /\ Called(AssignAclCmd(acl_paths[step],
                                 AclPrincipal(privsep, full_tokenid, UserPrincipal),
                                 Role, privsep), o)
          /\ IF o.raised THEN Become(Raised(g, o))
             ELSE IF o.rc # 0
             THEN Become(Caught(g, RuntimeError(MsgAclFailed \o acl_paths[step] \o ":\n",
                                                o.out, "")))
             ELSE IF step < Len(acl_paths) THEN Become([g EXCEPT !.step = step + 1])
             ELSE Become(AclStageDone(g, full_tokenid, secret))
  /\ UNCHANGED <<config, past>>

\* ssh.close(), in the handler of a failed stage or after the ACL stage
Close ==
  /\ pc = "close"
  /\ \E c \in CloseOutcomes, e \in CloseErrors :
       IF failed_at # ""
       THEN Become(HandlerClosed(Frame, c))
       ELSE Become(Finished(Frame, full_tokenid, secret, c, e))
  /\ UNCHANGED <<config, runner, platform, past>>

\* the operator runs the script again against the same platform
RunAgain ==
  /\ pc = "exited"
  /\ runs < MaxRuns
  /\ Become(StartFrame)
  /\ log' = <<>>
  /\ trail' = <<>>
  /\ resp' = NoResp
  /\ minted' = FALSE
  /\ issued' = NoIssue
  /\ runs' = runs + 1
  /\ prev_created' = created
  /\ prev_minted' = (prev_minted \/ minted)
  /\ UNCHANGED <<config, users, token_exists>>

Next ==
  \/ NoParamiko
  \/ ConnectPromptEOF
  \/ ConnectFailed
  \/ Connected
  \/ PromptPassword
  \/ PromptPasswordEOF
  \/ ListUsers
  \/ AddUser
  \/ OtherActorAddsUser
  \/ ResetPrompt
  \/ PromptInterrupted
  \/ SetUserPassword
  \/ CreateTokenStep
  \/ AssignAcl
  \/ Close
  \/ RunAgain

Spec == Init /\ [][Next]_vars

(***************************************************************************)
(* Properties                                                              *)
(***************************************************************************)
\* main has left the stages: it waits in ssh.close() or the process exited
Halted == pc \in {"close", "exited"}

\* the status of a process that failed, -1 while the handler closes the session
FailureStatus == IF pc = "exited" THEN {1, 130} ELSE {-1}

\* the commands of one base command in the current stage's log, in order
OfBase(base) == SelectSeq(log, LAMBDA e : e.cmd.base = base)

\* the base commands handed to prefer_json
PreferJsonBases == {"pveum user list", "pveum user token add"}

\* the last command handed to the runner was of this base
LastBase(base) == log # <<>> /\ log[Len(log)].cmd.base = base

\* C1: prefer_json issues "--output-format json" first, then "--format json",
\* then the bare command, and no further command after the first attempt
\* that exits zero, whether or not its output parses as JSON: it returns
\* that attempt's exit code and output.
C1_PreferJsonOrderAndStop ==
  \A base \in PreferJsonBases :
    \A a \in {OfBase(base)} :
      /\ Len(a) <= 3
      /\ Len(a) >= 1 => a[1].cmd.fmt = "--output-format json"
      /\ Len(a) >= 2 => a[2].cmd.fmt = "--format json"
      /\ Len(a) >= 3 => a[3].cmd.fmt = ""
      /\ \A k \in 1..Len(a) : k < Len(a) => a[k].rc # 0
      /\ (LastBase(base) /\ resp.rc = 0 /\ ~resp.raised)
            => pj_ret.set /\ pj_ret.rc = 0 /\ pj_ret.out = resp.out

\* the second variant exited zero with an output that is not JSON, and
\* prefer_json returned it
C1_Witness ==
  \E base \in PreferJsonBases :
    /\ LastBase(base)
    /\ Len(OfBase(base)) = 2
    /\ OfBase(base)[1].rc # 0
    /\ OfBase(base)[2].rc = 0
    /\ pj_ret.set
    /\ ~pj_ret.used_json

\* the output the platform printed when it created the token
IssuedOutput == RenderToken(issued.shape, issued.sec)

\* the runner raised on the command that created the token: the platform
\* ran it and run_ssh did not return its exit code and output
MintUnseen == minted /\ LastBase("pveum user token add") /\ resp.raised

\* C2: create_token returns only with a non-empty secret; when the runner
\* returned exit code zero for the create command and the output carries no
\* recoverable secret (no value or secret field with content, no labelled
\* token), the run fails at the token stage with the secret-loss error that
\* embeds the complete output, and no secret is returned; when the runner
\* raised instead of returning, the run ends with the runner's exception
\* and no secret is returned either.  A run that failed has printed the
\* error and closes the session or has exited.
C2_SecretNeverLostOrFaked ==
  /\ secret # NoSecret => secret.t = "str" /\ Len(secret.v) > 0
  /\ (pc = "acl" \/ exit_code = 0 \/ (pc = "close" /\ failed_at = ""))
        => secret # NoSecret
  /\ (minted /\ ~MintUnseen /\ issued.shape \in JsonUnrecoverable \cup TextUnrecoverable)
        => /\ Halted
           /\ exit_code \in FailureStatus
           /\ failed_at = "token"
           /\ secret = NoSecret
           /\ full_tokenid = <<>>
           /\ stderr = RuntimeError(MsgSecretLoss, IssuedOutput, MsgSecretLossTail)
  /\ MintUnseen
        => /\ Halted
           /\ exit_code \in FailureStatus
           /\ failed_at = "token"
           /\ secret = NoSecret
           /\ full_tokenid = <<>>
           /\ stderr.head \in ReadErrors
           /\ stderr.raw = <<>>

\* the platform created the token and printed empty value and secret fields
C2_Witness ==
  /\ minted
  /\ issued.shape = "dict_empty_both"
  /\ stderr.head = MsgSecretLoss
  /\ stderr.raw = IssuedOutput

\* C3: when the output the runner returned for a successful token creation
\* carries the secret in a recoverable place (the value field, else the secret field, of a JSON
\* record or of the first record of a JSON list; the token after a value: or
\* Token value: label in text), create_token returns exactly that secret,
\* the same for every shape.
C3_ExactSecret ==
  /\ (minted /\ ~MintUnseen /\ issued.shape \in JsonRecoverable \cup TextRecoverable)
        => /\ secret = JStr(issued.sec)
           /\ full_tokenid = UserPrincipal \o <<"!">> \o TokenName
           /\ failed_at # "token"
  /\ secret # NoSecret => minted /\ secret = JStr(issued.sec)

\* the secret came from the secret field because the value field was empty
C3_Witness ==
  /\ minted
  /\ issued.shape = "dict_empty_value_secret"
  /\ secret = JStr(issued.sec)

\* the commands the scripts can issue; none deletes or overwrites a token
KnownBases ==
  {"pveum user list", "pveum user add", "pveum user modify", "pveum passwd",
   "pveum user token add", "pveum aclmod"}

\* C4: when the output create_token gets for the token-creation command
\* contains "already exists" in any letter case, the run fails with the
\* guidance message: main prints it, closes the session and exits with
\* status 1, or 130 when the operator interrupts the close; no token and
\* no secret are returned, and the stage issued nothing but the creation
\* command; a run that finds the token already there never returns a token.
C4_AlreadyExistsGuard ==
  /\ (LastBase("pveum user token add") /\ pj_ret.set
       /\ Contains(Lower(pj_ret.out), W_already_exists))
        => /\ Halted
           /\ exit_code \in FailureStatus
           /\ failed_at = "token"
           /\ bundle = <<>>
           /\ stderr = RuntimeError(MsgTokenExists, <<>>, "")
           /\ secret = NoSecret
           /\ full_tokenid = <<>>
           /\ \A k \in 1..Len(log) : log[k].cmd.base = "pveum user token add"
  /\ (token_exists /\ ~minted) => secret = NoSecret /\ full_tokenid = <<>>
  /\ \A k \in 1..Len(trail) : trail[k] \in KnownBases

\* the platform answered in capitals that the token exists
C4_Witness ==
  /\ LastBase("pveum user token add")
  /\ pj_ret.set
  /\ pj_ret.out = T_TOKEN_EXISTS
  /\ stderr.head = MsgTokenExists

\* C5: against a platform where the principal is absent, ensure_user does
\* not return created=false (it creates the user and returns created=true);
\* a second call after a call that returned created=true returns
\* created=false and issues no user add, whether the listing is JSON or text.
C5_EnsureUserIdempotent ==
  [][/\ (pc = "list" /\ UserPrincipal \notin users) => created' # "false"
     /\ (pc = "list" /\ runs > 1 /\ prev_created = "true")
          => pc' # "add" /\ created' # "true"]_vars

\* C6: ensure_user returns created=true only if its own user add command
\* exited zero; when the principal already existed by then, also because
\* another actor created it after the listing, it returns created=false.
C6_CreatedOnlyIfAdded ==
  (LastBase("pveum user add") /\ created = "true") => log[Len(log)].rc = 0

\* main printed the one-time secret
SecretPrinted == \E k \in 1..Len(stdout) : stdout[k] = "SECRET"

\* the run ended with a failure
RunFailed == pc = "exited" /\ exit_code # 0

\* C7 as stated: a run that ends with a failure has left no token of its own
\* and has printed no secret, and no run goes on past a failure.
C7_AllOrNothing ==
  /\ failed_at # "" => Halted
  /\ RunFailed => ~minted /\ ~SecretPrinted

\* C7 amended: no run goes on past a failed stage and a failed run prints
\* no bundle, and nothing is rolled back: a run that fails before the token
\* stage has created no token and printed no secret; a run that fails at the
\* token stage has printed no secret, has created a token whenever the
\* failure is the secret-loss error, and otherwise only when the runner
\* raised after the platform ran the creation command; a run that fails at
\* the ACL stage, or after it when the session is closed, has created the
\* token and has printed its secret; a token a run created stays on the
\* platform.  A failed run closes the session, when a handler caught the
\* failure, and exits with status 1, or 130 after an interrupt.
C7_FailFastWithoutRollback ==
  /\ (stderr # NoError \/ failed_at # "")
        => Halted /\ exit_code \in FailureStatus /\ bundle = <<>>
  /\ (pc = "close" /\ failed_at # "")
        => /\ failed_at \notin {"connect", "password", "close"}
           /\ ssh = "open"
           /\ failed_at \in {"list", "add", "reset_prompt", "set_password"}
                 => ~minted /\ ~SecretPrinted /\ secret = NoSecret
           /\ failed_at = "token" => ~SecretPrinted /\ secret = NoSecret
           /\ failed_at = "acl" => minted /\ SecretPrinted
  /\ (RunFailed /\ failed_at \notin {"token", "acl", "close"})
        => ~minted /\ ~SecretPrinted /\ secret = NoSecret
  /\ (RunFailed /\ failed_at = "token")
        => /\ ~SecretPrinted
           /\ secret = NoSecret
           /\ stderr.head = MsgSecretLoss => minted /\ ~resp.raised
           /\ minted => stderr.head = MsgSecretLoss \/ MintUnseen
  /\ (RunFailed /\ failed_at \in {"acl", "close"})
        => minted /\ SecretPrinted /\ secret = JStr(issued.sec)
  /\ minted => token_exists

\* a run failed at the ACL stage after it created the token and printed the
\* secret
C7_Witness ==
  /\ RunFailed
  /\ failed_at = "acl"
  /\ minted
  /\ token_exists
  /\ SecretPrinted
  /\ stderr.head = "Failed to assign ACL on /:\n"

\* the place of a base command in the order of the stages
Rank(base) ==
  CASE base = "pveum user list" -> 1
    [] base = "pveum user add" -> 2
    [] base = "pveum user modify" -> 3
    [] base = "pveum passwd" -> 4
    [] base = "pveum user token add" -> 5
    [] base = "pveum aclmod" -> 6

InTrail(base) == \E k \in 1..Len(trail) : trail[k] = base

\* the stage whose command the runner was handed last
LastStage == StageOf(trail[Len(trail)])

StageAt(p) ==
  CASE p \in {"list", "add"} -> "ensure_user"
    [] p = "set_password" -> "set_user_password"
    [] p = "token" -> "create_token"
    [] p = "acl" -> "assign_acl"
    [] OTHER -> "none"

\* the order of the commands of a run, and what each stage waits for
StagesInOrder ==
  /\ \A i \in 1..Len(trail) : \A j \in 1..Len(trail) :
        i < j => Rank(trail[i]) < Rank(trail[j])
  /\ trail # <<>> => trail[1] = "pveum user list"
  /\ (InTrail("pveum user modify") \/ InTrail("pveum passwd"))
        => variant = "generate" /\ created = "false"
  /\ InTrail("pveum user token add") => created # "unset"
  /\ InTrail("pveum aclmod")
        => /\ secret # NoSecret
           /\ full_tokenid = UserPrincipal \o <<"!">> \o TokenName
           /\ minted
  /\ (Halted /\ StageAt(failed_at) # "none")
        => trail # <<>> /\ LastStage = StageAt(failed_at)

\* C8: a run issues its commands in the order of the stages ensure_user,
\* set_user_password (only for a user that existed, in the generate script),
\* create_token, assign_acl and never returns to an earlier command; a
\* token-creation command is issued only after ensure_user returned, an ACL
\* command only after create_token returned a token and a secret; the last
\* command of a failed run belongs to the stage that failed, and after the
\* failure nothing is issued until a new run starts: the only steps are the
\* close of the session, which hands the runner nothing, and the next run.
C8_StageOrderAndHalt ==
  /\ []StagesInOrder
  /\ [][failed_at # ""
          => \/ pc = "close" /\ pc' \in {"close", "exited"} /\ UNCHANGED <<runner, runs>>
             \/ pc = "exited" /\ trail' = <<>> /\ log' = <<>> /\ runs' = runs + 1]_vars

\* the generate script went through all four stages and failed at the last
C8_Witness ==
  /\ trail = <<"pveum user list", "pveum user modify", "pveum passwd",
               "pveum user token add", "pveum aclmod">>
  /\ RunFailed
  /\ failed_at = "acl"

\* C9: with privilege separation every ACL command carries the token flag
\* and the token identifier <user principal>!<token name>; without it every
\* ACL command carries the user flag and the user principal.
C9_AclPrincipal ==
  \A k \in 1..Len(log) :
    log[k].cmd.base = "pveum aclmod"
      => IF privsep
         THEN /\ log[k].cmd.how = "-token"
              /\ log[k].cmd.who = UserPrincipal \o <<"!">> \o TokenName
         ELSE /\ log[k].cmd.how = "-user"
              /\ log[k].cmd.who = UserPrincipal

\* both paths were granted to the token
C9_Witness ==
  /\ privsep
  /\ Len(log) = 2
  /\ \A k \in 1..Len(log) : log[k].cmd.base = "pveum aclmod" /\ log[k].rc = 0
  /\ log[2].cmd.how = "-token"

\* C10: a run that fails at any stage, or is interrupted, exits with a
\* non-zero status (1, or 130 after an interrupt), once its handler has
\* closed the session, and prints no bundle; the bundle is printed, with
\* the token identifier and the secret the platform issued, and the process
\* exits zero only when ensure_user, create_token and every ACL assignment
\* succeeded and the session was closed.
C10_ExitBehaviour ==
  /\ pc = "exited" <=> exit_code \in {0, 1, 130}
  /\ pc # "exited" <=> exit_code = -1
  /\ (failed_at # "" \/ stderr # NoError)
        => Halted /\ exit_code \in FailureStatus /\ bundle = <<>>
  /\ exit_code \in {1, 130} => failed_at # ""
  /\ pc = "close" => ssh = "open" /\ bundle = <<>>
  /\ bundle # <<>> <=> exit_code = 0
  /\ exit_code = 0
       => /\ stderr = NoError
          /\ created # "unset"
          /\ minted
          /\ bundle = <<[api_user |-> UserPrincipal,
                         api_token_id |-> UserPrincipal \o <<"!">> \o TokenName,
                         api_token_secret |-> JStr(issued.sec),
                         validate_certs |-> FALSE]>>
          /\ Len(log) = Len(acl_paths)
          /\ \A k \in 1..Len(log) :
                /\ log[k].cmd.base = "pveum aclmod"
                /\ log[k].cmd.path = acl_paths[k]
                /\ log[k].rc = 0

\* a run printed the bundle and exited zero
C10_Witness ==
  /\ exit_code = 0
  /\ bundle # <<>>
  /\ ssh = "closed"

\* the runner returned (it did not raise) from the last command, of this base
Returned(base) == LastBase(base) /\ ~resp.raised

\* C11: a non-zero exit of the user add command is tolerated exactly when
\* its output contains "already exists" in any letter case, and any other
\* non-zero exit fails the run with the creation error; a non-zero exit of
\* the listing, which is the exit of the bare command after both flag
\* variants failed, fails the run with the listing error and no user add
\* command is issued; a failed run prints the error, closes the session and
\* exits with status 1, or 130 when the operator interrupts the close.
C11_AddTolerance ==
  /\ (Returned("pveum user add") /\ resp.rc # 0)
        => IF Contains(Lower(resp.out), W_already_exists)
           THEN created = "true" /\ stderr = NoError /\ ~Halted
           ELSE /\ created = "unset"
                /\ Halted
                /\ exit_code \in FailureStatus
                /\ failed_at = "add"
                /\ stderr = RuntimeError(MsgAddFailed, resp.out, "")
  /\ (Returned("pveum user list") /\ pj_ret.set /\ pj_ret.rc # 0)
        => /\ Len(log) = 3
           /\ \A k \in 1..3 : log[k].cmd.base = "pveum user list" /\ log[k].rc # 0
           /\ created = "unset"
           /\ Halted
           /\ exit_code \in FailureStatus
           /\ failed_at = "list"
           /\ ~InTrail("pveum user add")
           /\ stderr = RuntimeError(MsgListFailed, resp.out, "")

\* the user add command failed with "User Already Exists" and the run went on
C11_Witness ==
  /\ Returned("pveum user add")
  /\ resp.rc # 0
  /\ resp.out = T_User_Exists
  /\ created = "true"
  /\ pc = "token"

\* C12: prefer_json runs the bare command, once and as its third command,
\* exactly when both flag variants exited non-zero, and then returns the
\* bare run's exit code and output with used_json false; used_json is true
\* only with exit code zero and an output json.loads accepts; what it
\* returns is the exit code and output of the last command it ran.
C12_BareRunAndStructuredFlag ==
  \A base \in PreferJsonBases :
    \A a \in {OfBase(base)} :
      /\ \A k \in 1..Len(a) : a[k].cmd.fmt = "" <=> k = 3
      /\ Len(a) = 3 => a[1].rc # 0 /\ a[2].rc # 0
      /\ (Returned(base) /\ Len(a) = 2 /\ resp.rc # 0)
            => ~pj_ret.set /\ ~Halted /\ step = 3
      /\ (Returned(base) /\ Len(a) = 3)
            => pj_ret.set /\ ~pj_ret.used_json
      /\ (LastBase(base) /\ pj_ret.set)
            => /\ ~resp.raised
               /\ pj_ret.rc = resp.rc
               /\ pj_ret.out = resp.out
               /\ pj_ret.rc = a[Len(a)].rc
               /\ pj_ret.used_json => pj_ret.rc = 0 /\ JsonLoads(pj_ret.out).ok
               /\ (Len(a) < 3 /\ ~pj_ret.used_json) => ~JsonLoads(pj_ret.out).ok

\* both flag variants failed and the bare command exited zero
C12_Witness ==
  \E base \in PreferJsonBases :
    /\ Returned(base)
    /\ Len(OfBase(base)) = 3
    /\ OfBase(base)[3].rc = 0
    /\ pj_ret.set
    /\ pj_ret.rc = 0
    /\ ~pj_ret.used_json

\* the current run comes after a run that created the token
LaterRun == runs > 1 /\ prev_minted

\* C13 as stated: once a run has created the token, every later run fails
\* at the token stage with the guidance message, without secret and without
\* ACL command, and its user stage returned created=false.
C13_EveryLaterRunMeetsGuard ==
  (LaterRun /\ pc = "exited")
    => /\ failed_at = "token"
       /\ stderr = RuntimeError(MsgTokenExists, <<>>, "")
       /\ created = "false"
       /\ secret = NoSecret
       /\ ~InTrail("pveum aclmod")

\* C13 amended: in every run after a run that created the token, no token
\* is created and no secret is returned or printed, no ACL command is
\* issued and the run does not succeed; its user stage issues no user add
\* and, when it returns, returns created=false; a token-creation command
\* whose result the runner returns exits non-zero and the run fails at the
\* token stage, with the guidance message unless the platform refuses the
\* command for a reason of its own (permission denied).  A later run can
\* also end before the token stage, or at it with the runner's exception.
C13_NoTokenReissue ==
  LaterRun
    => /\ token_exists
       /\ ~minted
       /\ secret = NoSecret
       /\ full_tokenid = <<>>
       /\ ~SecretPrinted
       /\ ~InTrail("pveum aclmod")
       /\ pc # "acl"
       /\ exit_code # 0
       /\ ~InTrail("pveum user add")
       /\ created # "true"
       /\ InTrail("pveum user token add") => created = "false"
       /\ (Returned("pveum user token add") /\ pj_ret.set)
             => /\ pj_ret.rc # 0
                /\ Halted
                /\ failed_at = "token"
                /\ exit_code \in FailureStatus
                /\ IF pj_ret.out = T_denied
                   THEN stderr = RuntimeError(MsgTokenFailed, pj_ret.out, "")
                   ELSE stderr = RuntimeError(MsgTokenExists, <<>>, "")

\* the third run, like the second, found the user and failed at the token
\* stage with the guidance message
C13_Witness ==
  /\ runs = 3
  /\ prev_minted
  /\ created = "false"
  /\ failed_at = "token"
  /\ stderr.head = MsgTokenExists
  /\ trail = <<"pveum user list", "pveum user token add">>

\* the current stage is set_user_password
InPasswordStage == log # <<>> /\ StageOf(log[1].cmd.base) = "set_user_password"

\* C14: set_user_password issues pveum user modify first and pveum passwd
\* second, each with the principal and the chosen password; it issues the
\* second only after the first exited non-zero, returns at the first zero
\* exit, and raises its error only after both exited non-zero, with the
\* output of the second.
C14_SetPasswordOrder ==
  InPasswordStage
    => /\ Len(log) <= 2
       /\ log[1].cmd.base = "pveum user modify"
       /\ Len(log) = 2 => log[2].cmd.base = "pveum passwd" /\ log[1].rc # 0
       /\ \A k \in 1..Len(log) :
             /\ log[k].cmd.who = UserPrincipal
             /\ log[k].cmd.pw = chosen_password
             /\ log[k].cmd.opts = "--password"
       /\ (~resp.raised /\ resp.rc = 0)
             => /\ pc = "token"
                /\ stderr = NoError
                /\ stdout[Len(stdout)] = "Password updated."
       /\ (~resp.raised /\ resp.rc # 0 /\ Len(log) = 1)
             => pc = "set_password" /\ step = 2 /\ stderr = NoError
       /\ stderr.head = MsgPasswordFailed
             => /\ Len(log) = 2
                /\ log[1].rc # 0
                /\ log[2].rc # 0
                /\ ~resp.raised
                /\ stderr = RuntimeError(MsgPasswordFailed, resp.out, "")
       /\ (~resp.raised /\ resp.rc # 0 /\ Len(log) = 2)
             => /\ Halted
                /\ exit_code \in FailureStatus
                /\ failed_at = "set_password"
                /\ stderr.head = MsgPasswordFailed

\* pveum user modify failed and pveum passwd set the password
C14_Witness ==
  /\ InPasswordStage
  /\ Len(log) = 2
  /\ log[1].cmd.base = "pveum user modify"
  /\ log[1].rc # 0
  /\ log[2].cmd.base = "pveum passwd"
  /\ log[2].rc = 0
  /\ pc = "token"

\* C15: once the session is open, every way the process exits, after a
\* failure of any stage, password entry and password reset included, or
\* after success, has closed it, and a closed session gets no command.
C15_SessionReleased ==
  /\ pc = "exited" => ssh # "open"
  /\ ssh = "closed" => pc = "exited"

\* the current stage is assign_acl
InAclStage == log # <<>> /\ StageOf(log[1].cmd.base) = "assign_acl"

\* C16: the ACL commands of a run are one per path, in the order of
\* acl_paths, each with the role main fixes; a path is granted only after
\* every path before it was granted with exit zero; a non-zero exit ends the
\* run with the ACL error for that path and its output, and the paths after
\* it get no command; after the last path was granted the ACL stage is over:
\* main closes the session, and the run succeeds unless the close fails.
C16_AclPerPathInOrder ==
  InAclStage
    => /\ Len(log) <= Len(acl_paths)
       /\ \A k \in 1..Len(log) :
             /\ log[k].cmd.base = "pveum aclmod"
             /\ log[k].cmd.path = acl_paths[k]
             /\ log[k].cmd.opts = "-role PVEAdmin"
             /\ k < Len(log) => log[k].rc = 0
       /\ (~resp.raised /\ resp.rc # 0)
             => /\ Halted
                /\ exit_code \in FailureStatus
                /\ failed_at = "acl"
                /\ stderr = RuntimeError("Failed to assign ACL on "
                                            \o acl_paths[Len(log)] \o ":\n",
                                          resp.out, "")
       /\ (~resp.raised /\ resp.rc = 0)
             => IF Len(log) < Len(acl_paths)
                THEN pc = "acl" /\ step = Len(log) + 1 /\ stderr = NoError
                ELSE /\ Halted
                     /\ failed_at \in {"", "close"}
                     /\ pc = "close" => failed_at = "" /\ stderr = NoError
                     /\ pc = "exited" => (failed_at = "" <=> exit_code = 0)
                     /\ exit_code = 0 => stderr = NoError /\ ssh = "closed"
                     /\ stdout[Len(stdout)] \in {"ACL(s) applied", "Ansible vars"}

\* the first of two paths was granted and the second was refused
C16_Witness ==
  /\ InAclStage
  /\ Len(acl_paths) = 2
  /\ Len(log) = 2
  /\ log[1].rc = 0
  /\ log[2].rc > 0
  /\ log[2].cmd.path = "/vms"
  /\ failed_at = "acl"

\* the record of the principal as a JSON listing prints it
PrincipalRecord == Member(W_userid, Quoted(UserPrincipal))

\* C17: after a listing that exited zero, ensure_user takes the principal
\* for existing, with a structured listing, exactly when the listing has a
\* record whose userid is the principal, and with an unstructured listing
\* exactly when the text contains the principal; a structured listing that
\* only has a user whose name contains the principal leads to the create
\* command.
C17_ExactMatchWhenStructured ==
  (Returned("pveum user list") /\ pj_ret.set /\ pj_ret.rc = 0)
    => /\ created \in {"unset", "false"}
       /\ created = "unset" <=> pc = "add"
       /\ pj_ret.used_json
             => (created = "false" <=> Contains(pj_ret.out, PrincipalRecord))
       /\ ~pj_ret.used_json
             => (created = "false" <=> Contains(pj_ret.out, UserPrincipal))

\* a structured listing with the look-alike user and without the principal
C17_Witness ==
  /\ Returned("pveum user list")
  /\ pj_ret.set
  /\ pj_ret.used_json
  /\ Contains(pj_ret.out, Lookalike)
  /\ ~Contains(pj_ret.out, PrincipalRecord)
  /\ pc = "add"

\* C18: whenever ensure_user has returned, the principal exists on the
\* platform, with a structured and with an unstructured listing and
\* whatever other users the platform has.
C18_UserExistsAfterEnsure == created # "unset" => UserPrincipal \in users

\* the token-creation commands of the stage that exited zero
ZeroExits(a) == {k \in 1..Len(a) : a[k].rc = 0}

\* how often main printed the secret
SecretsPrinted == Cardinality({k \in 1..Len(stdout) : stdout[k] = "SECRET"})

\* C19: of the up to three token-creation commands of a run at most one
\* exits zero, and it is the last one issued; a zero exit created the
\* token, and a token the run created without one was created by the last
\* command, on which the runner raised; once the run has created the token
\* it issues no further creation command, and at most one secret is printed
\* in a run.
C19_AtMostOneTokenPerRun ==
  /\ SecretsPrinted <= 1
  /\ SecretsPrinted = 1 => minted /\ secret = JStr(issued.sec)
  /\ \A a \in {OfBase("pveum user token add")} :
       /\ Len(a) <= 3
       /\ Cardinality(ZeroExits(a)) <= 1
       /\ ZeroExits(a) \subseteq {Len(a)}
       /\ LastBase("pveum user token add")
             => /\ ZeroExits(a) # {} => minted
                /\ minted => ZeroExits(a) # {} \/ resp.raised
  /\ minted => pc \in {"acl", "close", "exited"}

\* the third token-creation command of the run created the token
C19_Witness ==
  /\ LastBase("pveum user token add")
  /\ Len(log) = 3
  /\ ZeroExits(log) = {3}
  /\ minted
  /\ SecretsPrinted = 1

====
